---- MODULE Spec2Model ----
(***************************************************************************)
(* Model of the mutagen runtime: the process-wide runtime configuration    *)
(* (mutagen-core/src/runtime_config.rs), the unary-NOT mutator             *)
(* (mutagen-core/src/mutator/mutator_unop_not.rs) and the instrumented     *)
(* binary expressions of mutagen-selftest/src/mutator/test_binop_num.rs.   *)
(*                                                                         *)
(* Option<T> values are modelled as sequences of length at most one:       *)
(* None is <<>> and Some(x) is <<x>>.  Strings are sequences of            *)
(* one-character strings.  u32 is modelled with IdBits bits.               *)
(***************************************************************************)
EXTENDS Integers, Sequences, FiniteSets, TLC

\* ------------------------------------------------------------ bounds
NumThreads == 2
\* width of the unsigned type of mutation ids (u32 in the source)
IdBits == 3
\* width of the native integer operands of an instrumented expression
ValBits == 2
\* number of expressions handed to transform in one pass
MaxExprs == 2
\* the ids test_with_mutation_id is called with are 0 .. MaxTestId
MaxTestId == 1
\* env_reads saturates here: the value means "this often or more"
EnvReadsCap == 2
\* longest slice of records handed to get_mutation
MaxRecords == 2
\* width of the native integers of a binary numeric expression
NumBits == 6
\* most binary sites in one instrumented function
MaxSites == 2

\* ------------------------------------------------------------ constants
\* runtime_config.rs:33, unwrap_or(0): the baseline id
Baseline == 0

Threads == 1 .. NumThreads
U32Max == 2 ^ IdBits - 1
U32 == 0 .. U32Max

None == << >>
Some(x) == << x >>
IsSome(o) == Len(o) = 1
Unwrap(o) == o[1]

Min(a, b) == IF a < b THEN a ELSE b

\* ------------------------------------------------------------ environment
Digits == {"0", "1", "9"}

DigitVal(c) == CASE c = "0" -> 0 [] c = "1" -> 1 [] c = "9" -> 9

\* the values given to the variable: empty, decimal numbers with and without
\* sign, numbers above u32::MAX, text that is no number
EnvStrings ==
    { << >>, << "0" >>, << "1" >>, << "9" >>, << "+" >>, << "x" >>,
      << "+", "1" >>, << "-", "1" >>, << "1", "x" >>, << "1", "9" >>,
      << "0", "1" >>, << "9", "9" >> }

\* env::var("MUTATION_ID"): Err (variable not set) or Ok(string)
EnvValues == { None } \cup { Some(s) : s \in EnvStrings }

\* <u32 as FromStr>::from_str: an optional leading '+', then decimal digits;
\* the empty string, a lone sign, a non-digit (for an unsigned type '-' is one)
\* and a value above u32::MAX are errors.  Returns None for Err.
RECURSIVE ParseDigits(_, _)
ParseDigits(digits, acc) ==
    IF Len(digits) = 0 THEN Some(acc)
    ELSE IF Head(digits) \notin Digits THEN None
    ELSE LET next == acc * 10 + DigitVal(Head(digits))
         IN  IF next > U32Max THEN None ELSE ParseDigits(Tail(digits), next)

ParseU32(s) ==
    IF Len(s) = 0 THEN None
    ELSE IF Len(s) = 1 /\ Head(s) \in {"+", "-"} THEN None
    ELSE IF Head(s) = "+" THEN ParseDigits(Tail(s), 0)
    ELSE ParseDigits(s, 0)

\* env::var(..).ok().and_then(|s| s.parse().ok())
ParseEnv(e) == IF IsSome(e) THEN ParseU32(Unwrap(e)) ELSE None
\* Option::unwrap_or
UnwrapOr(o, d) == IF IsSome(o) THEN Unwrap(o) ELSE d

from_env_unwrap_or_1(e) == UnwrapOr(ParseEnv(e), 1)

\* MutagenRuntimeConfig::from_env, given the variable's current value;
\* the result is the mutation_id of the new MutagenRuntimeConfig
from_env(e) == UnwrapOr(ParseEnv(e), Baseline)

\* ------------------------------------------------------------ queries
is_mutation_active_always(self, mutation_id) == TRUE

\* MutagenRuntimeConfig::is_mutation_active
is_mutation_active(self, mutation_id) == self = mutation_id


\* a call that returns v, and a call that panics
Ret(v) == [kind |-> "ret", v |-> v]
Panic == [kind |-> "panic", v |-> 0]

in_bounds_inclusive(self, mutator_id, num_mutations, overflow_checks) ==
    IF ~(mutator_id < self) THEN Ret(FALSE)
    ELSE Ret(self <= num_mutations + mutator_id)

\* MutagenRuntimeConfig::in_bounds.  `&&` evaluates the sum only when the
\* first comparison holds; a u32 sum above u32::MAX panics in a build with
\* overflow checks and wraps in a build without.
in_bounds(self, mutator_id, num_mutations, overflow_checks) ==
    IF ~(mutator_id < self) THEN Ret(FALSE)
    ELSE LET sum == num_mutations + mutator_id
         IN  IF sum > U32Max
             THEN IF overflow_checks THEN Panic
                  ELSE Ret(self < sum % (U32Max + 1))
             ELSE Ret(self < sum)

\* <[T]>::get: the element at a zero-based index, None outside the slice
SliceGet(slice, index) ==
    IF index < Len(slice) THEN Some(slice[index + 1]) ELSE None

get_mutation_off_by_one(self, mutator_id, mutations) ==
    IF self < mutator_id THEN None
    ELSE SliceGet(mutations, self - mutator_id + 1)

\* MutagenRuntimeConfig::get_mutation
get_mutation(self, mutator_id, mutations) ==
    IF self < mutator_id THEN None
    ELSE LET index == self - mutator_id
         IN  SliceGet(mutations, index)

\* ------------------------------------------------------------ operands
\* An operand is [ty, v].  bool is held as 0 (false) and 1 (true); "u" and
\* "i" are the native unsigned and signed integers of ValBits bits; the unit
\* structs of optimistc_types hold 0.
Val(ty, v) == [ty |-> ty, v |-> v]

NativeTypes == {"bool", "u", "i"}
NotTypes == NativeTypes \cup {"TypeWithNotOtherOutput"}

ValuesOf(ty) ==
    CASE ty = "bool" -> 0 .. 1
      [] ty = "u" -> 0 .. (2 ^ ValBits - 1)
      [] ty = "i" -> (0 - 2 ^ (ValBits - 1)) .. (2 ^ (ValBits - 1) - 1)
      [] OTHER -> {0}

Operands(types) == UNION { { Val(ty, v) : v \in ValuesOf(ty) } : ty \in types }

\* <T as Not>::Output
NotOutput(ty) ==
    IF ty = "TypeWithNotOtherOutput" THEN "TypeWithNotTarget" ELSE ty

\* <T as Not>::not: logical negation of bool, bitwise complement of the
\* native integers, TypeWithNotTarget() for TypeWithNotOtherOutput()
Not(val) ==
    CASE val.ty = "bool" -> Val("bool", 1 - val.v)
      [] val.ty = "u" -> Val("u", (2 ^ ValBits - 1) - val.v)
      [] val.ty = "i" -> Val("i", (0 - val.v) - 1)
      [] OTHER -> Val(NotOutput(val.ty), 0)

\* T: Into<<T as Not>::Output>: the only conversion in scope is the
\* reflexive From<T> for T, which applies when the negation keeps the type
HasInto(ty) == NotOutput(ty) = ty

\* Into::into for the reflexive conversion
Into(val) == Val(NotOutput(val.ty), val.v)

may_none_tier_default(ty) == "default"

\* which impl of NotToNone::may_none specialization selects for T
may_none_tier(ty) == IF HasInto(ty) THEN "specific" ELSE "default"



\* ------------------------------------------------------------ state
VARIABLES
    phase,           \* "transform" (compile time), "run" (the process), "query"
    mutations,       \* the registry: the records of the compilation unit
    code,            \* the expressions transform has returned, in order
    env,             \* the value of the environment variable MUTATION_ID
    RUNTIME_CONFIG,  \* the Option<MutagenRuntimeConfig> inside the mutex
    config_lock,     \* the thread holding RUNTIME_CONFIG's mutex, if any
    TEST_LOCK,       \* [owner, poisoned] of the serialization mutex
    th,              \* each thread's position and locals
    coverage,        \* the site ids reported to covered()
    env_reads,       \* how often from_env has read the variable (saturating)
    init_values,     \* every mutation id an initialisation has stored
    active_seen,     \* every id for which is_mutation_active returned true
    override,        \* the latest call of the test-only override, if any
    obs              \* what the step just taken has returned or observed

vars == << phase, mutations, code, env, RUNTIME_CONFIG, config_lock, TEST_LOCK,
           th, coverage, env_reads, init_values, active_seen, override,
           obs >>

TestIds == 0 .. MaxTestId

\* a mutex nobody holds, and one thread t holds
Free == None
Held(t) == Some(t)

Idle ==
    [ pc |-> "idle",      \* where the thread is
      test |-> None,      \* Some(id) inside test_with_mutation_id(id, ..)
      cont |-> "",        \* what the pending get_default call returns to
      got |-> None,       \* what the thread's latest get_default returned
      mutator_id |-> 0,   \* the site being executed
      run_fn |-> "",      \* "run" or "run_native_num"
      runtime |-> None,   \* the site's third argument: Some(mutation_id)
      val |-> None,       \* the site's operand
      calls |-> << >> ]   \* the calls the site has made on the runtime

NoObs == [op |-> "none"]

\* no override yet; set_test_config(id), called by test_with_mutation_id
\* (test) or directly; clear_test_config()
NoOverride == [kind |-> "none", id |-> 0, test |-> FALSE]
Forced(id, test) == [kind |-> "set", id |-> id, test |-> test]
Cleared == [kind |-> "cleared", id |-> 0, test |-> FALSE]

\* the state before any thread has run
Fresh ==
    /\ mutations = << >>
    /\ code = << >>
    /\ RUNTIME_CONFIG = None
    /\ config_lock = Free
    /\ TEST_LOCK = [owner |-> Free, poisoned |-> FALSE]
    /\ th = [t \in Threads |-> Idle]
    /\ coverage = {}
    /\ env_reads = 0
    /\ init_values = {}
    /\ active_seen = {}
    /\ override = NoOverride

Init ==
    /\ phase = "transform"
    /\ env \in EnvValues
    /\ obs = NoObs
    /\ Fresh

\* ------------------------------------------------------------ transform pass
\* the expressions of the program under transformation
Exprs ==
    { [kind |-> "unary", op |-> "!"],
      [kind |-> "unary", op |-> "-"],
      [kind |-> "lit", op |-> ""] }

\* Mutation::new_spanned(context, "unop_not", "!", "", span)
NewMutation(span) ==
    [mutator |-> "unop_not", original |-> "!", mutated |-> "", span |-> span]

add_mutation_id_constant(registry) == 0

\* SharedTransformInfo::add_mutation appends the record to the registry;
\* the id it returns is len - 1
add_mutation_id(registry) == Len(registry) - 1

IsUnopNot_any_unary(e) == e.kind = "unary"

\* TryFrom<Expr> for ExprUnopNot: Ok for a unary `!`, Err(expr) otherwise
IsUnopNot(e) == e.kind = "unary" /\ e.op = "!"

\* transform(e, transform_info, context); is_num is context.is_num_expr()
transform(e, is_num) ==
    /\ phase = "transform"
    /\ Len(code) < MaxExprs
    /\ IF ~IsUnopNot(e)
       THEN /\ code' = Append(code, e)
            /\ UNCHANGED mutations
            /\ obs' = [op |-> "transform", e |-> e, before |-> mutations,
                       mutator_id |-> None, out |-> e]
       ELSE LET registry == Append(mutations, NewMutation(Len(code)))
                mutator_id == add_mutation_id(registry)
                run_fn == IF is_num THEN "run_native_num" ELSE "run"
                call == [kind |-> "call", op |-> run_fn,
                         mutator_id |-> mutator_id]
            IN  /\ mutations' = registry
                /\ code' = Append(code, call)
                /\ obs' = [op |-> "transform", e |-> e, before |-> mutations,
                           mutator_id |-> Some(mutator_id), out |-> call]
    /\ UNCHANGED << override, phase, env, RUNTIME_CONFIG, config_lock, TEST_LOCK, th,
                    coverage, env_reads, init_values,
                    active_seen >>

\* the pass is over: the instrumented program is built and started
StartProcess ==
    /\ phase = "transform"
    /\ phase' = "run"
    /\ obs' = NoObs
    /\ UNCHANGED << override, mutations, code, env, RUNTIME_CONFIG, config_lock,
                    TEST_LOCK, th, coverage, env_reads, init_values, active_seen >>

\* the instrumented sites of the program
Sites == { i \in 1 .. Len(code) : code[i].kind = "call" }

\* ------------------------------------------------------------ get_default
\* where a thread stands between two calls
Base(t) == IF IsSome(th[t].test) THEN "body" ELSE "idle"

Sat(n) == Min(n + 1, EnvReadsCap)

\* where get_default returns to: the caller ("call"), the generated
\* expression ("run") or may_none's default tier ("failed")
AfterDefault(t) ==
    CASE th[t].cont = "run" -> "run"
      [] th[t].cont = "failed" -> "failed"
      [] OTHER -> Base(t)

\* the config returned to the generated expression becomes the site's
\* runtime argument; any other call leaves that argument alone
Argument(t, config) == IF th[t].cont = "run" THEN config ELSE th[t].runtime

\* a thread calls MutagenRuntimeConfig::get_default()
call_get_default(t) ==
    /\ phase = "run"
    /\ th[t].pc = Base(t)
    /\ th' = [th EXCEPT ![t].pc = "gd_lock", ![t].cont = "call"]
    /\ obs' = NoObs
    /\ UNCHANGED << override, phase, mutations, code, env, RUNTIME_CONFIG, config_lock,
                    TEST_LOCK, coverage, env_reads, init_values, active_seen >>

get_default_match_uncached(t) ==
    /\ th[t].pc = "gd_lock"
    /\ config_lock = Free
    /\ th' = [th EXCEPT ![t].pc = "gd_init"]
    /\ config_lock' = Held(t)
    /\ obs' = NoObs
    /\ UNCHANGED << override, phase, mutations, code, env, RUNTIME_CONFIG, TEST_LOCK,
                    coverage, env_reads, init_values,
                    active_seen >>

\* get_default, lines 17-18 and 25: RUNTIME_CONFIG.lock().unwrap(), then
\* match &*lock_guard.  Some(config) returns the copy and drops the guard;
\* None keeps the guard and goes on to initialise.  The mutex is never
\* poisoned: no code panics while holding it.
get_default_match(t) ==
    /\ th[t].pc = "gd_lock"
    /\ config_lock = Free
    /\ IF IsSome(RUNTIME_CONFIG)
       THEN /\ th' = [th EXCEPT ![t].pc = AfterDefault(t),
                                ![t].got = RUNTIME_CONFIG,
                                ![t].runtime = Argument(t, RUNTIME_CONFIG)]
            /\ obs' = [op |-> "get_default", t |-> t, init |-> FALSE,
                       res |-> Unwrap(RUNTIME_CONFIG)]
            /\ UNCHANGED config_lock
       ELSE /\ th' = [th EXCEPT ![t].pc = "gd_init"]
            /\ config_lock' = Held(t)
            /\ obs' = NoObs
    /\ UNCHANGED << override, phase, mutations, code, env, RUNTIME_CONFIG, TEST_LOCK,
                    coverage, env_reads, init_values, active_seen >>

\* get_default, lines 19-24: the None arm reads the variable, stores the
\* config, returns it and drops the guard
get_default_init(t) ==
    /\ th[t].pc = "gd_init"
    /\ LET env_config == from_env(env)
       IN  /\ RUNTIME_CONFIG' = Some(env_config)
           /\ th' = [th EXCEPT ![t].pc = AfterDefault(t),
                               ![t].got = Some(env_config),
                               ![t].runtime = Argument(t, Some(env_config))]
           /\ init_values' = init_values \cup {env_config}
           /\ obs' = [op |-> "get_default", t |-> t, init |-> TRUE,
                      env |-> env, res |-> env_config]
    /\ env_reads' = Sat(env_reads)
    /\ config_lock' = Free
    /\ UNCHANGED << override, phase, mutations, code, env, TEST_LOCK, coverage,
                    active_seen >>

\* MutagenRuntimeConfig::get_default
get_default(t) ==
    \/ get_default_match(t)
    \/ get_default_init(t)

\* a thread asks the config it holds: config.is_mutation_active(mutation_id)
call_is_mutation_active(t, mutation_id) ==
    /\ phase = "run"
    /\ th[t].pc = Base(t)
    /\ IsSome(th[t].got)
    /\ LET active == is_mutation_active(Unwrap(th[t].got), mutation_id)
       IN  /\ active_seen' =
                 IF active THEN active_seen \cup {mutation_id} ELSE active_seen
           /\ obs' = [op |-> "is_mutation_active", t |-> t,
                      self |-> Unwrap(th[t].got), mutation_id |-> mutation_id,
                      res |-> active]
    /\ UNCHANGED << override, phase, mutations, code, env, RUNTIME_CONFIG, config_lock,
                    TEST_LOCK, th, coverage, env_reads, init_values >>

\* the environment variable is set or removed (env::set_var, env::remove_var)
SetEnv(e) ==
    /\ phase = "run"
    /\ e # env
    /\ env' = e
    /\ obs' = NoObs
    /\ UNCHANGED << override, phase, mutations, code, RUNTIME_CONFIG, config_lock,
                    TEST_LOCK, th, coverage, env_reads, init_values, active_seen >>


\* ------------------------------------------------------------ unary NOT site
\* the generated expression
\*   run_fn(mutator_id, expr, MutagenRuntimeConfig::get_default())
\* is entered: its third argument calls get_default
CallSite(t, i) ==
    /\ phase = "run"
    /\ th[t].pc = Base(t)
    /\ i \in Sites
    /\ th' = [th EXCEPT ![t].pc = "gd_lock",
                        ![t].cont = "run",
                        ![t].mutator_id = code[i].mutator_id,
                        ![t].run_fn = code[i].op,
                        ![t].runtime = None,
                        ![t].val = None,
                        ![t].calls = << >>]
    /\ obs' = NoObs
    /\ UNCHANGED << override, phase, mutations, code, env, RUNTIME_CONFIG, config_lock,
                    TEST_LOCK, coverage, env_reads, init_values, active_seen >>

\* the operands a site can be given: run_native_num needs I: Not<Output = I>
\* of a native numeric expression, run any T: Not
SiteOperands(run_fn) ==
    IF run_fn = "run_native_num" THEN Operands(NativeTypes)
    ELSE Operands(NotTypes)

run_native_num_inverted(mutator_id, val, runtime) ==
    IF is_mutation_active(runtime, mutator_id) THEN Not(val) ELSE val

\* run_native_num, lines 37-41
run_native_num(mutator_id, val, runtime) ==
    IF is_mutation_active(runtime, mutator_id) THEN val ELSE Not(val)

\* NotToNone::may_none: the specialised impl returns self.into(); the
\* default impl goes on to get_default().optimistic_assmuption_failed()
may_none(val) ==
    IF may_none_tier(val.ty) = "specific" THEN Ret(Into(val))
    ELSE [kind |-> "default_tier", v |-> 0]

\* run, lines 24-28
run(mutator_id, val, runtime) ==
    IF is_mutation_active(runtime, mutator_id) THEN may_none(val)
    ELSE Ret(Not(val))

\* what run_site leaves behind, given the calls it made on the runtime
SiteStep(t, val, calls, covered) ==
    LET mutator_id == th[t].mutator_id
        runtime == Unwrap(th[t].runtime)
        active == is_mutation_active(runtime, mutator_id)
        res == IF th[t].run_fn = "run_native_num"
               THEN Ret(run_native_num(mutator_id, val, runtime))
               ELSE run(mutator_id, val, runtime)
    IN  /\ coverage' = coverage \cup covered
        /\ active_seen' =
              IF active THEN active_seen \cup {mutator_id} ELSE active_seen
        /\ th' = [th EXCEPT
              ![t].pc = IF res.kind = "ret" THEN Base(t) ELSE "gd_lock",
              ![t].cont = IF res.kind = "ret" THEN @ ELSE "failed",
              ![t].val = Some(val),
              ![t].calls = calls]
        /\ obs' = [op |-> "run", t |-> t, run_fn |-> th[t].run_fn,
                   mutator_id |-> mutator_id, runtime |-> runtime,
                   val |-> val, calls |-> calls, covered |-> covered,
                   tier |-> may_none_tier(val.ty), out |-> res]

run_site_covered_late(t, val) ==
    /\ th[t].pc = "run"
    /\ val \in SiteOperands(th[t].run_fn)
    /\ SiteStep(t, val, << "is_mutation_active", "covered" >>,
                {th[t].mutator_id})
    /\ UNCHANGED << override, phase, mutations, code, env, RUNTIME_CONFIG, config_lock,
                    TEST_LOCK, env_reads, init_values >>

\* the body of run / run_native_num on the operand val, up to its return or
\* to the call of get_default() in may_none's default tier:
\* runtime.covered(mutator_id), then runtime.is_mutation_active(mutator_id),
\* then the original or the mutated expression
run_site(t, val) ==
    /\ th[t].pc = "run"
    /\ val \in SiteOperands(th[t].run_fn)
    /\ SiteStep(t, val, << "covered", "is_mutation_active" >>,
                {th[t].mutator_id})
    /\ UNCHANGED << override, phase, mutations, code, env, RUNTIME_CONFIG, config_lock,
                    TEST_LOCK, env_reads, init_values >>

Unwind_holding(t) == TEST_LOCK

\* a panic unwinds the thread: a TEST_LOCK guard it holds is dropped, which
\* poisons that mutex, and the thread ends
Unwind(t) ==
    IF TEST_LOCK.owner = Held(t)
    THEN [owner |-> Free, poisoned |-> TRUE]
    ELSE TEST_LOCK

\* MutagenRuntimeConfig::optimistic_assmuption_failed: never returns
optimistic_assmuption_failed(t) ==
    /\ th[t].pc = "failed"
    /\ th' = [th EXCEPT ![t].pc = "panicked"]
    /\ TEST_LOCK' = Unwind(t)
    /\ obs' = [op |-> "run", t |-> t, run_fn |-> th[t].run_fn,
               mutator_id |-> th[t].mutator_id,
               runtime |-> Unwrap(th[t].runtime), val |-> Unwrap(th[t].val),
               calls |-> th[t].calls \o << "get_default",
                            "optimistic_assmuption_failed" >>,
               covered |-> {},
               tier |-> "default", out |-> Panic]
    /\ UNCHANGED << override, phase, mutations, code, env, RUNTIME_CONFIG, config_lock,
                    coverage, env_reads, init_values,
                    active_seen >>

\* ------------------------------------------------------------ test tools
\* a thread calls test_with_mutation_id(mutation_id, testcase)
call_test_with_mutation_id(t, mutation_id) ==
    /\ phase = "run"
    /\ th[t].pc = "idle"
    /\ th' = [th EXCEPT ![t] = [Idle EXCEPT !.pc = "test_lock",
                                            !.test = Some(mutation_id)]]
    /\ obs' = NoObs
    /\ UNCHANGED << override, phase, mutations, code, env, RUNTIME_CONFIG,
                    config_lock, TEST_LOCK, coverage, env_reads, init_values,
                    active_seen >>

test_with_mutation_id_unserialized(t) ==
    /\ th[t].pc = "test_lock"
    /\ TEST_LOCK' = [TEST_LOCK EXCEPT !.owner = Held(t)]
    /\ th' = [th EXCEPT ![t].pc = "set"]
    /\ obs' = NoObs
    /\ UNCHANGED << override, phase, mutations, code, env, RUNTIME_CONFIG, config_lock,
                    coverage, env_reads, init_values,
                    active_seen >>

\* test_with_mutation_id, line 70: let lock = TEST_LOCK.lock().  The result
\* is not unwrapped: a poisoned mutex still hands over the guard.
test_with_mutation_id_lock(t) ==
    /\ th[t].pc = "test_lock"
    /\ TEST_LOCK.owner = Free
    /\ TEST_LOCK' = [TEST_LOCK EXCEPT !.owner = Held(t)]
    /\ th' = [th EXCEPT ![t].pc = "set"]
    /\ obs' = NoObs
    /\ UNCHANGED << override, phase, mutations, code, env, RUNTIME_CONFIG, config_lock,
                    coverage, env_reads, init_values,
                    active_seen >>

\* set_test_config: *RUNTIME_CONFIG.lock().unwrap() = Some(with_mutation_id(id))
set_test_config(mutation_id) ==
    /\ config_lock = Free
    /\ RUNTIME_CONFIG' = Some(mutation_id)

clear_test_config_keeps ==
    /\ config_lock = Free
    /\ RUNTIME_CONFIG' = RUNTIME_CONFIG

\* clear_test_config: *RUNTIME_CONFIG.lock().unwrap() = None
clear_test_config ==
    /\ config_lock = Free
    /\ RUNTIME_CONFIG' = None

\* a thread calls MutagenRuntimeConfig::set_test_config(mutation_id) itself
call_set_test_config(t, mutation_id) ==
    /\ phase = "run"
    /\ th[t].pc = Base(t)
    /\ set_test_config(mutation_id)
    /\ override' = Forced(mutation_id, FALSE)
    /\ obs' = [op |-> "set_test_config", t |-> t, id |-> mutation_id]
    /\ UNCHANGED << phase, mutations, code, env, config_lock, TEST_LOCK, th,
                    coverage, env_reads, init_values, active_seen >>

\* a thread calls MutagenRuntimeConfig::clear_test_config()
call_clear_test_config(t) ==
    /\ phase = "run"
    /\ th[t].pc = Base(t)
    /\ clear_test_config
    /\ override' = Cleared
    /\ obs' = [op |-> "clear_test_config", t |-> t]
    /\ UNCHANGED << phase, mutations, code, env, config_lock, TEST_LOCK, th,
                    coverage, env_reads, init_values, active_seen >>

\* test_with_mutation_id, line 71
test_with_mutation_id_set(t) ==
    /\ th[t].pc = "set"
    /\ set_test_config(Unwrap(th[t].test))
    /\ override' = Forced(Unwrap(th[t].test), TRUE)
    /\ th' = [th EXCEPT ![t].pc = "body"]
    /\ obs' = NoObs
    /\ UNCHANGED << phase, mutations, code, env, config_lock, TEST_LOCK,
                    coverage, env_reads, init_values,
                    active_seen >>

test_with_mutation_id_drop_clearing(t) ==
    /\ th[t].pc = "body"
    /\ clear_test_config
    /\ TEST_LOCK' = IF TEST_LOCK.owner = Held(t)
                    THEN [TEST_LOCK EXCEPT !.owner = Free] ELSE TEST_LOCK
    /\ th' = [th EXCEPT ![t] = Idle]
    /\ obs' = [op |-> "test_done", t |-> t, id |-> Unwrap(th[t].test)]
    /\ UNCHANGED << override, phase, mutations, code, env, config_lock,
                    coverage, env_reads, init_values, active_seen >>

\* test_with_mutation_id, lines 72-74: testcase() has returned; drop(lock)
test_with_mutation_id_drop(t) ==
    /\ th[t].pc = "body"
    /\ TEST_LOCK' = IF TEST_LOCK.owner = Held(t)
                    THEN [TEST_LOCK EXCEPT !.owner = Free] ELSE TEST_LOCK
    /\ th' = [th EXCEPT ![t] = Idle]
    /\ obs' = [op |-> "test_done", t |-> t, id |-> Unwrap(th[t].test)]
    /\ UNCHANGED << override, phase, mutations, code, env, RUNTIME_CONFIG, config_lock,
                    coverage, env_reads, init_values,
                    active_seen >>

\* testcase() panics (a failed assert_eq!): the panic unwinds through
\* test_with_mutation_id
testcase_panic(t) ==
    /\ th[t].pc = "body"
    /\ th' = [th EXCEPT ![t].pc = "panicked"]
    /\ TEST_LOCK' = Unwind(t)
    /\ obs' = NoObs
    /\ UNCHANGED << override, phase, mutations, code, env, RUNTIME_CONFIG, config_lock,
                    coverage, env_reads, init_values,
                    active_seen >>

\* ------------------------------------------------------------ queries
Records == {"a", "b"}

RECURSIVE SlicesUpTo(_)
SlicesUpTo(n) ==
    IF n = 0 THEN { << >> }
    ELSE LET shorter == SlicesUpTo(n - 1)
         IN  shorter \cup { Append(s, r) : s \in shorter, r \in Records }

\* the arguments of a call still to be made
InBoundsArgs ==
    { [op |-> "in_bounds_args", self |-> self, mutator_id |-> mutator_id,
       num_mutations |-> num_mutations, overflow_checks |-> overflow_checks] :
      self \in U32, mutator_id \in U32, num_mutations \in U32,
      overflow_checks \in BOOLEAN }

GetMutationArgs ==
    { [op |-> "get_mutation_args", self |-> self, mutator_id |-> mutator_id,
       mutations |-> records] :
      self \in U32, mutator_id \in U32, records \in SlicesUpTo(MaxRecords) }

SelectArgs ==
    { [op |-> "select_args", self |-> self, mutator_id |-> mutator_id,
       mutations |-> records, overflow_checks |-> overflow_checks] :
      self \in U32, mutator_id \in U32, records \in SlicesUpTo(MaxRecords),
      overflow_checks \in BOOLEAN }

\* config.in_bounds(mutator_id, num_mutations) on the config
\* with_mutation_id(self), in a build with or without overflow checks
call_in_bounds ==
    /\ phase = "query"
    /\ obs.op = "in_bounds_args"
    /\ obs' = [op |-> "in_bounds", self |-> obs.self,
               mutator_id |-> obs.mutator_id,
               num_mutations |-> obs.num_mutations,
               overflow_checks |-> obs.overflow_checks,
               res |-> in_bounds(obs.self, obs.mutator_id, obs.num_mutations,
                                 obs.overflow_checks)]
    /\ UNCHANGED << override, phase, mutations, code, env, RUNTIME_CONFIG, config_lock,
                    TEST_LOCK, th, coverage, env_reads, init_values, active_seen >>

\* a site of several candidate mutations asks both queries of one config:
\* config.in_bounds(mutator_id, records.len()) and
\* config.get_mutation(mutator_id, &records)
call_select ==
    /\ phase = "query"
    /\ obs.op = "select_args"
    /\ obs' = [op |-> "select", self |-> obs.self,
               mutator_id |-> obs.mutator_id, mutations |-> obs.mutations,
               overflow_checks |-> obs.overflow_checks,
               in_bounds |-> in_bounds(obs.self, obs.mutator_id,
                                       Len(obs.mutations), obs.overflow_checks),
               get_mutation |-> get_mutation(obs.self, obs.mutator_id,
                                             obs.mutations)]
    /\ UNCHANGED << override, phase, mutations, code, env, RUNTIME_CONFIG, config_lock,
                    TEST_LOCK, th, coverage, env_reads, init_values, active_seen >>

\* config.get_mutation(mutator_id, &records)
call_get_mutation ==
    /\ phase = "query"
    /\ obs.op = "get_mutation_args"
    /\ obs' = [op |-> "get_mutation", self |-> obs.self,
               mutator_id |-> obs.mutator_id, mutations |-> obs.mutations,
               res |-> get_mutation(obs.self, obs.mutator_id, obs.mutations)]
    /\ UNCHANGED << override, phase, mutations, code, env, RUNTIME_CONFIG, config_lock,
                    TEST_LOCK, th, coverage, env_reads, init_values, active_seen >>

\* ------------------------------------------------------------ binary sites
\* the literals of the functions in test_binop_num.rs
Literals == {1, 2, 3, 4, 5}
StrLiterals == { << "a" >>, << "b" >> }
Operators == {"+", "-", "*", "/"}

\* i32, and String
BinopTypes == {"i32", "String"}

LiteralsOf(ty) == IF ty = "i32" THEN Literals ELSE StrLiterals

\* the operators the operand type implements: String has Add only
Supports(ty) == IF ty = "i32" THEN Operators ELSE {"+"}

I32Min == 0 - 2 ^ (NumBits - 1)
I32Max == 2 ^ (NumBits - 1) - 1

\* two's complement wrap-around
Wrap(v) == ((v - I32Min) % (2 ^ NumBits)) + I32Min

Abs(v) == IF v < 0 THEN 0 - v ELSE v

\* integer division truncates towards zero
TruncDiv(a, b) ==
    LET q == Abs(a) \div Abs(b)
    IN  IF (a < 0) = (b < 0) THEN q ELSE 0 - q

\* the operator applied to native integers: a result outside the type
\* panics in a build with overflow checks and wraps in one without;
\* division by zero panics in both
ApplyInt(op, a, b, overflow_checks) ==
    IF op = "/" /\ b = 0 THEN Panic
    ELSE LET exact == CASE op = "+" -> a + b
                        [] op = "-" -> a - b
                        [] op = "*" -> a * b
                        [] op = "/" -> TruncDiv(a, b)
         IN  IF exact < I32Min \/ exact > I32Max
             THEN IF overflow_checks THEN Panic ELSE Ret(Wrap(exact))
             ELSE Ret(exact)

\* the operator applied to operands of the type
ApplyOp(ty, op, a, b, overflow_checks) ==
    IF ty = "i32" THEN ApplyInt(op, a, b, overflow_checks)
    ELSE Ret(a \o b)

swap_operator_identity(op) == op

\* the operator the binop_num mutation puts in place of op
swap_operator(op) ==
    CASE op = "+" -> "-"
      [] op = "-" -> "+"
      [] op = "*" -> "/"
      [] op = "/" -> "*"

binop_tier_specific(ty, op) == "specific"

\* the swapped operation is there when the operand type implements it;
\* otherwise the site is left with the default that cannot return
binop_tier(ty, op) ==
    IF swap_operator(op) \in Supports(ty) THEN "specific" ELSE "default"

\* the instrumented binary expression at site mutator_id
run_binop(mutator_id, left, right, op, ty, runtime, overflow_checks) ==
    IF is_mutation_active(runtime, mutator_id)
    THEN IF binop_tier(ty, op) = "specific"
         THEN ApplyOp(ty, swap_operator(op), left, right, overflow_checks)
         ELSE Panic
    ELSE ApplyOp(ty, op, left, right, overflow_checks)

site_id_from_zero(i) == i - 1

\* the id of the i-th site of an instrumented function, inner-left first
site_id(i) == i

RECURSIVE SeqsOfLen(_, _)
SeqsOfLen(S, n) ==
    IF n = 0 THEN { << >> }
    ELSE { Append(q, x) : q \in SeqsOfLen(S, n - 1), x \in S }

\* the functions x0 op1 x1 op2 x2 .. of up to MaxSites sites, about to be
\* called; the expression associates to the left
BinopCallsOf(ty, k) ==
    { [op |-> "binop_call", ty |-> ty, operands |-> operands,
       operators |-> operators, overflow_checks |-> overflow_checks,
       next |-> 1, acc |-> Ret(operands[1]), swapped |-> {}, used |-> << >>] :
      overflow_checks \in BOOLEAN,
      operands \in SeqsOfLen(LiteralsOf(ty), k + 1),
      operators \in SeqsOfLen(Supports(ty), k) }

BinopCalls(call) ==
    \E ty \in BinopTypes, k \in 1 .. MaxSites : call \in BinopCallsOf(ty, k)

\* the next site of the function is evaluated: its left operand is the value
\* of the sites before it, its right operand the next literal
run_binop_site ==
    /\ phase = "binop"
    /\ obs.op \in {"binop_call", "binop"}
    /\ obs.next <= Len(obs.operators)
    /\ obs.acc.kind = "ret"
    /\ LET i == obs.next
           mutator_id == site_id(i)
           runtime == Unwrap(RUNTIME_CONFIG)
           active == is_mutation_active(runtime, mutator_id)
           operator == obs.operators[i]
           out == run_binop(mutator_id, obs.acc.v, obs.operands[i + 1],
                            operator, obs.ty, runtime, obs.overflow_checks)
       IN  /\ obs' = [obs EXCEPT
                  !.op = "binop",
                  !.next = i + 1,
                  !.acc = out,
                  !.swapped = IF active THEN @ \cup {i} ELSE @,
                  !.used = Append(@, IF active THEN swap_operator(operator)
                                               ELSE operator)]
           /\ coverage' = coverage \cup {mutator_id}
           /\ active_seen' =
                 IF active THEN active_seen \cup {mutator_id} ELSE active_seen
    /\ UNCHANGED << override, phase, mutations, code, env, RUNTIME_CONFIG,
                    config_lock, TEST_LOCK, th, env_reads, init_values >>

\* ------------------------------------------------------------ specifications
\* the thread that runs the instrumented program
MainThread == CHOOSE t \in Threads : \A u \in Threads : t <= u

TransformPass ==
    \/ \E e \in Exprs, is_num \in BOOLEAN : transform(e, is_num)
    \/ StartProcess

Site(t) ==
    \/ \E i \in 1 .. MaxExprs : CallSite(t, i)
    \/ get_default(t)
    \/ \E val \in Operands(NotTypes) : run_site(t, val)
    \/ optimistic_assmuption_failed(t)

\* the instrumented program: the transform pass, then one thread executing
\* the generated expressions while the environment changes
Next ==
    \/ TransformPass
    \/ Site(MainThread)
    \/ \E e \in EnvValues : SetEnv(e)

Spec == Init /\ [][Next]_vars

\* a started process (of a program without instrumented sites)
InitProcess ==
    /\ phase = "run"
    /\ env \in EnvValues
    /\ obs = NoObs
    /\ Fresh

Caller(t) ==
    \/ call_get_default(t)
    \/ get_default(t)
    \/ \E mutation_id \in U32 : call_is_mutation_active(t, mutation_id)

\* a process built without the test tools: every thread calls get_default
\* and asks the config it got, while the environment changes
NextConfig ==
    \/ \E t \in Threads : Caller(t)
    \/ \E e \in EnvValues : SetEnv(e)

SpecConfig == InitProcess /\ [][NextConfig]_vars

TestTools(t) ==
    \/ \E id \in TestIds : call_test_with_mutation_id(t, id)
    \/ test_with_mutation_id_lock(t)
    \/ test_with_mutation_id_set(t)
    \/ test_with_mutation_id_drop(t)
    \/ testcase_panic(t)

\* a test binary, #[cfg(any(test, feature = "self_test"))]: every thread runs
\* test cases through test_with_mutation_id; test cases and other threads
\* call get_default
NextSelfTest ==
    \/ \E t \in Threads : TestTools(t)
    \/ \E t \in Threads : call_get_default(t)
    \/ \E t \in Threads : get_default(t)
    \/ \E e \in EnvValues : SetEnv(e)

SpecSelfTest == InitProcess /\ [][NextSelfTest]_vars

\* the variable is absent or names an id
EnvIds == { None, Some(<< "1" >>) }

InitOverride ==
    /\ phase = "run"
    /\ env \in EnvIds
    /\ obs = NoObs
    /\ Fresh

\* a thread blocked in Mutex::lock gets the mutex once it is released often
\* enough, a thread that holds RUNTIME_CONFIG's mutex goes on, and every test
\* case ends (it returns or it panics)
Fairness ==
    \A t \in Threads :
        /\ WF_vars(get_default(t))
        /\ WF_vars(test_with_mutation_id_set(t))
        /\ SF_vars(test_with_mutation_id_drop(t) \/ testcase_panic(t))
        /\ SF_vars(test_with_mutation_id_lock(t))

\* a test binary started without the variable
InitSelfTestFair ==
    /\ phase = "run"
    /\ env = None
    /\ obs = NoObs
    /\ Fresh

NextSelfTestFair ==
    \/ \E t \in Threads : TestTools(t)
    \/ \E t \in Threads : call_get_default(t)
    \/ \E t \in Threads : get_default(t)

\* the test binary under a scheduler that lets no thread starve
SpecSelfTestFair ==
    InitSelfTestFair /\ [][NextSelfTestFair]_vars /\ Fairness

Override(t) ==
    \/ \E id \in TestIds : call_set_test_config(t, id)
    \/ call_clear_test_config(t)

\* a test binary whose threads also call the override functions themselves,
\* while one of them runs test cases
NextOverride ==
    \/ TestTools(MainThread)
    \/ \E t \in Threads : Override(t)
    \/ \E t \in Threads : call_get_default(t)
    \/ \E t \in Threads : get_default(t)
    \/ \E e \in EnvIds : SetEnv(e)

SpecOverride == InitOverride /\ [][NextOverride]_vars

\* calls of the pure queries of a config
InitQuery ==
    /\ phase = "query"
    /\ env = None
    /\ obs \in InBoundsArgs \cup GetMutationArgs \cup SelectArgs
    /\ Fresh

NextQuery ==
    \/ call_in_bounds
    \/ call_get_mutation
    \/ call_select

SpecQuery == InitQuery /\ [][NextQuery]_vars


\* a test case calls an instrumented function of binary sites with the
\* active id stored: 0 (no mutation) or the id of one of its possible sites
InitBinop ==
    /\ phase = "binop"
    /\ env = None
    /\ mutations = << >>
    /\ code = << >>
    /\ RUNTIME_CONFIG \in { Some(id) : id \in 0 .. MaxSites }
    /\ override = Forced(Unwrap(RUNTIME_CONFIG), TRUE)
    /\ config_lock = Free
    /\ TEST_LOCK = [owner |-> Free, poisoned |-> FALSE]
    /\ th = [t \in Threads |-> Idle]
    /\ coverage = {}
    /\ env_reads = 0
    /\ init_values = {}
    /\ active_seen = {}
    /\ BinopCalls(obs)

NextBinop == run_binop_site

SpecBinop == InitBinop /\ [][NextBinop]_vars

\* ------------------------------------------------------------ properties
\* the call has returned the value v
Returns(out, v) == out.kind = "ret" /\ out.v = v

\* C1: in_bounds(s, n) returns true exactly when s <= a < s + n, for the
\* active id a; stated here for the calls whose sum s + n fits the id type.
C1_InBoundsHalfOpen ==
    (obs.op = "in_bounds" /\ obs.mutator_id + obs.num_mutations <= U32Max)
    => Returns(obs.res, obs.mutator_id <= obs.self
                        /\ obs.self < obs.mutator_id + obs.num_mutations)

C3_InitialisedOnce ==
    /\ env_reads <= 1
    /\ Cardinality(init_values) <= 1
    /\ IF IsSome(RUNTIME_CONFIG)
       THEN env_reads = 1 /\ init_values = {Unwrap(RUNTIME_CONFIG)}
       ELSE env_reads = 0 /\ init_values = {}
    /\ obs.op = "get_default" => Some(obs.res) = RUNTIME_CONFIG
    /\ \A t \in Threads : IsSome(th[t].got) => th[t].got = RUNTIME_CONFIG

\* every thread has its config, and the variable now holds another id
C3_Witness ==
    /\ \A t \in Threads : IsSome(th[t].got)
    /\ from_env(env) # Unwrap(RUNTIME_CONFIG)
    /\ env_reads = 1

\* the body of a test case is running on thread t
InBody(t) ==
    IsSome(th[t].test) /\ th[t].pc \in {"body", "gd_lock", "gd_init"}

\* C4: the bodies of two test cases never run at the same time, and every
\* get_default call made inside test_with_mutation_id(id, f) returns id.
C4_TestsSerialized ==
    /\ \A t, u \in Threads : (InBody(t) /\ InBody(u)) => t = u
    /\ \A t \in Threads :
          (IsSome(th[t].test) /\ IsSome(th[t].got)) => th[t].got = th[t].test

\* a test case has its id from get_default after a test case with another
\* id has had its own and panicked
C4_Witness ==
    \E t, u \in Threads :
        /\ InBody(t)
        /\ th[t].got = th[t].test
        /\ obs.op = "get_default"
        /\ obs.t = t
        /\ th[u].pc = "panicked"
        /\ IsSome(th[u].got)
        /\ th[u].got = th[u].test
        /\ th[u].test # th[t].test

\* C5: over the life of a process at most one mutation id is ever reported
\* active by is_mutation_active.
C5_AtMostOneActive == Cardinality(active_seen) <= 1

\* one id has been reported active, another one inactive, and the variable
\* now names an id that is not the active one
C5_Witness ==
    /\ Cardinality(active_seen) = 1
    /\ obs.op = "is_mutation_active"
    /\ ~obs.res
    /\ from_env(env) \notin active_seen

\* C6: get_mutation(s, records) is none when a < s, the record at local index
\* a - s when s <= a < s + len(records), and none when a >= s + len(records).
C6_GetMutationSelects ==
    obs.op = "get_mutation"
    => LET a == obs.self
           s == obs.mutator_id
           n == Len(obs.mutations)
       IN  /\ a < s => obs.res = None
           /\ (s <= a /\ a < s + n) => obs.res = Some(obs.mutations[a - s + 1])
           /\ a >= s + n => obs.res = None

\* a record past the first is selected
C6_Witness ==
    /\ obs.op = "get_mutation"
    /\ obs.self > obs.mutator_id
    /\ IsSome(obs.res)

\* the thread is on its way from may_none's default tier to the panic
Failing(t) == th[t].cont = "failed"

\* C7: run on an active site panics and returns nothing when the operand type
\* has no conversion into the negation's output type, returns the converted
\* operand when it has one, and returns !val on an inactive site for both.
C7_OptimisticDispatch ==
    /\ (obs.op = "run" /\ obs.run_fn = "run")
       => IF obs.runtime # obs.mutator_id
          THEN Returns(obs.out, Not(obs.val))
          ELSE IF obs.val.ty = "TypeWithNotOtherOutput"
          THEN /\ obs.out.kind # "ret"
               /\ th[obs.t].pc \in {"gd_lock", "gd_init", "failed", "panicked"}
          ELSE Returns(obs.out, obs.val)
    /\ \A t \in Threads :
          Failing(t) => th[t].pc \in {"gd_lock", "gd_init", "failed", "panicked"}

\* run has panicked on an active site
C7_Witness ==
    /\ obs.op = "run"
    /\ obs.run_fn = "run"
    /\ obs.out.kind = "panic"
    /\ obs.runtime = obs.mutator_id
    /\ th[obs.t].pc = "panicked"

\* C8: run_native_num(m, v, config) returns v when the config's active id is
\* m and the complement !v otherwise.
C8_NativeNum ==
    (obs.op = "run" /\ obs.run_fn = "run_native_num")
    => IF obs.runtime = obs.mutator_id
       THEN Returns(obs.out, obs.val)
       ELSE Returns(obs.out, Not(obs.val))

\* an active native site has returned a signed operand as it was
C8_Witness ==
    /\ obs.op = "run"
    /\ obs.run_fn = "run_native_num"
    /\ obs.runtime = obs.mutator_id
    /\ obs.val.ty = "i"
    /\ Returns(obs.out, obs.val)

\* C9: every execution of a site reports coverage for its id before it asks
\* whether the id is active, on active and inactive sites and on the way to
\* the panic of the default tier.
C9_CoveredFirst ==
    /\ obs.op = "run"
       => /\ Len(obs.calls) >= 2
          /\ obs.calls[1] = "covered"
          /\ obs.calls[2] = "is_mutation_active"
          /\ obs.mutator_id \in coverage
    /\ \A t \in Threads :
          th[t].calls \in { << >>, << "covered", "is_mutation_active" >> }

\* the execution that ends in the panic had reported its coverage first
C9_Witness ==
    /\ obs.op = "run"
    /\ obs.out.kind = "panic"
    /\ obs.calls[1] = "covered"
    /\ obs.mutator_id \in coverage

\* the value of a string of decimal digits
RECURSIVE Decimal(_)
Decimal(s) ==
    IF Len(s) = 0 THEN 0
    ELSE Decimal(SubSeq(s, 1, Len(s) - 1)) * 10 + DigitVal(s[Len(s)])

\* the variable holds an unsigned number of the id type: decimal digits,
\* after at most one '+', of a value up to u32::MAX
IsU32Text(e) ==
    /\ IsSome(e)
    /\ LET s == Unwrap(e)
           digits == IF Len(s) > 0 /\ s[1] = "+" THEN Tail(s) ELSE s
       IN  /\ Len(digits) > 0
           /\ \A i \in 1 .. Len(digits) : digits[i] \in Digits
           /\ Decimal(digits) <= U32Max

\* C10: when the variable is absent or holds no unsigned number of the id
\* type, the initialising get_default stores and returns the id 0.
C10_MalformedIsBaseline ==
    (obs.op = "get_default" /\ obs.init /\ ~IsU32Text(obs.env))
    => /\ obs.res = 0
       /\ RUNTIME_CONFIG = Some(0)
       /\ th[obs.t].got = Some(0)

\* the initialisation has read a negative number
C10_Witness ==
    /\ obs.op = "get_default"
    /\ obs.init
    /\ obs.env = Some(<< "-", "1" >>)
    /\ RUNTIME_CONFIG = Some(0)

\* C14: the ids embedded in the generated expressions increase strictly in
\* the order of registration, so no two sites of a pass share an id.
C14_IdsDistinctIncreasing ==
    \A i, j \in Sites : i < j => code[i].mutator_id < code[j].mutator_id

\* MaxExprs unary NOT expressions have been transformed in one pass
C14_Witness ==
    /\ Cardinality(Sites) = MaxExprs
    /\ Len(mutations) = MaxExprs

\* C16: transform returns an expression that is no unary NOT as it is and
\* leaves the registry alone; for a unary NOT it appends one record of the
\* operator unop_not and the replacement carries the id add_mutation returned.
C16_TransformFrame ==
    obs.op = "transform"
    => IF obs.e.kind = "unary" /\ obs.e.op = "!"
       THEN /\ Len(mutations) = Len(obs.before) + 1
            /\ SubSeq(mutations, 1, Len(obs.before)) = obs.before
            /\ mutations[Len(mutations)].mutator = "unop_not"
            /\ obs.out.kind = "call"
            /\ Some(obs.out.mutator_id) = obs.mutator_id
            /\ code[Len(code)] = obs.out
       ELSE /\ obs.out = obs.e
            /\ code[Len(code)] = obs.e
            /\ mutations = obs.before
            /\ obs.mutator_id = None

\* a unary minus has gone through transform after a unary NOT was registered
C16_Witness ==
    /\ obs.op = "transform"
    /\ obs.e = [kind |-> "unary", op |-> "-"]
    /\ Len(obs.before) = 1
    /\ mutations = obs.before

\* C19: whenever in_bounds(s, n) is true for a slice of n records with s + n
\* in the id type, get_mutation(s, records) returns a record.
C19_InBoundsSelects ==
    (/\ obs.op = "select"
     /\ obs.mutator_id + Len(obs.mutations) <= U32Max
     /\ Returns(obs.in_bounds, TRUE))
    => IsSome(obs.get_mutation)

\* the active id is the last one of the range and selects the last record
C19_Witness ==
    /\ obs.op = "select"
    /\ Returns(obs.in_bounds, TRUE)
    /\ obs.self = obs.mutator_id + Len(obs.mutations) - 1
    /\ obs.get_mutation = Some(obs.mutations[Len(obs.mutations)])

\* the step makes no call of the override functions
NoOverrideCall ==
    /\ override' = override
    /\ obs'.op \notin {"set_test_config", "clear_test_config"}

\* what C15 asks of one step
C15_Step ==
    /\ obs'.op = "set_test_config" => RUNTIME_CONFIG' = Some(obs'.id)
    /\ obs'.op = "clear_test_config" => RUNTIME_CONFIG' = None
    /\ obs'.op = "get_default"
       => IF RUNTIME_CONFIG = None
          THEN /\ obs'.init
               /\ obs'.res = from_env(env)
               /\ RUNTIME_CONFIG' = Some(obs'.res)
               /\ env_reads' = Sat(env_reads)
          ELSE /\ obs'.res = Unwrap(RUNTIME_CONFIG)
               /\ RUNTIME_CONFIG' = RUNTIME_CONFIG
               /\ env_reads' = env_reads
    /\ (override.kind = "set" /\ NoOverrideCall)
       => /\ RUNTIME_CONFIG = Some(override.id)
          /\ RUNTIME_CONFIG' = RUNTIME_CONFIG
          /\ env_reads' = env_reads
          /\ obs'.op = "get_default" => obs'.res = override.id
    /\ (override.kind = "cleared" /\ NoOverrideCall
          /\ RUNTIME_CONFIG' # RUNTIME_CONFIG)
       => /\ RUNTIME_CONFIG = None
          /\ obs'.op = "get_default"

\* C15: after set_test_config(id) every get_default returns id and the
\* variable is not read, until the next override; clear_test_config leaves the
\* state Uninitialized, and the get_default that finds it so reads the
\* variable as it is then, stores the id and returns it.
C15_OverrideAndClear == [][C15_Step]_vars

\* after a clear, get_default has read the variable a second time and stored
\* an id other than the one of the first initialisation
C15_Witness ==
    /\ override.kind = "cleared"
    /\ obs.op = "get_default"
    /\ obs.init
    /\ env_reads = 2
    /\ Cardinality(init_values) = 2
    /\ RUNTIME_CONFIG = Some(obs.res)

\* C18: once test_with_mutation_id(id, f) is over the stored id is still id,
\* and get_default returns id, as long as no other override call is made.
C18_NoRestore ==
    /\ (override.kind = "set" /\ override.test /\ TEST_LOCK.owner = Free)
       => /\ RUNTIME_CONFIG = Some(override.id)
          /\ obs.op = "get_default" => obs.res = override.id
    /\ (obs.op = "test_done" /\ override = Forced(obs.id, TRUE))
       => RUNTIME_CONFIG = Some(obs.id)

\* a thread that ran no test case gets the id of a test case that has
\* returned, while the variable names another id
C18_Witness ==
    /\ override.kind = "set"
    /\ override.test
    /\ TEST_LOCK = [owner |-> Free, poisoned |-> FALSE]
    /\ obs.op = "get_default"
    /\ obs.res = override.id
    /\ from_env(env) # override.id
    /\ \A t \in Threads : th[t].pc = "idle"

\* thread t is inside a get_default call
InGetDefault(t) == th[t].pc \in {"gd_lock", "gd_init"}

\* C17: every get_default call returns, every test_with_mutation_id call gets
\* TEST_LOCK, stores its id, runs its test case and gives the lock back when
\* the test case returns or panics; this holds as well for the calls made
\* after a test case has panicked and poisoned the lock.
C17_CallsComplete ==
    \A t \in Threads :
        /\ InGetDefault(t) ~> ~InGetDefault(t)
        /\ (th[t].pc = "test_lock")
              ~> (th[t].pc = "body" /\ RUNTIME_CONFIG = th[t].test
                    /\ TEST_LOCK.owner = Held(t))
        /\ IsSome(th[t].test)
              ~> (th[t].pc \in {"idle", "panicked"}
                    /\ TEST_LOCK.owner # Held(t))
        /\ (TEST_LOCK.poisoned /\ th[t].pc = "test_lock")
              ~> (th[t].pc = "body" /\ RUNTIME_CONFIG = th[t].test)

\* a test case runs with its id stored after another one has panicked
C17_Witness ==
    \E t, u \in Threads :
        /\ th[u].pc = "panicked"
        /\ TEST_LOCK = [owner |-> Held(t), poisoned |-> TRUE]
        /\ th[t].pc = "body"
        /\ RUNTIME_CONFIG = th[t].test

\* the function of the given operands and operators has been evaluated to
\* its end with the active id runtime
Evaluated(operands, operators, runtime) ==
    /\ obs.op = "binop"
    /\ obs.ty = "i32"
    /\ obs.operands = operands
    /\ obs.operators = operators
    /\ obs.next = Len(operators) + 1
    /\ RUNTIME_CONFIG = Some(runtime)

\* C11: with the sites of a function numbered from 1, inner-left first, the
\* site whose number is the active id uses its swapped operator and every
\* other site its original one, none is swapped with no mutation active, and
\* 5 + 4 + 1 gives 10, 2 with id 1 and 8 with id 2.
C11_ExactlyTheActiveSite ==
    /\ obs.op = "binop"
       => LET active == Unwrap(RUNTIME_CONFIG)
              done == obs.next - 1
          IN  /\ obs.swapped = {active} \cap 1 .. done
              /\ \A i \in 1 .. done :
                    obs.used[i] = IF i = active
                                  THEN swap_operator(obs.operators[i])
                                  ELSE obs.operators[i]
              /\ active = Baseline => obs.swapped = {}
    /\ Evaluated(<< 5, 4, 1 >>, << "+", "+" >>, 0) => Returns(obs.acc, 10)
    /\ Evaluated(<< 5, 4, 1 >>, << "+", "+" >>, 1) => Returns(obs.acc, 2)
    /\ Evaluated(<< 5, 4, 1 >>, << "+", "+" >>, 2) => Returns(obs.acc, 8)

\* 5 + 4 + 1 has been evaluated with the second site active
C11_Witness ==
    /\ Evaluated(<< 5, 4, 1 >>, << "+", "+" >>, 2)
    /\ obs.swapped = {2}
    /\ Returns(obs.acc, 8)

\* the first site of an integer function has been evaluated
FirstSite(left, operator, right) ==
    /\ obs.op = "binop"
    /\ obs.ty = "i32"
    /\ obs.next = 2
    /\ obs.operands[1] = left
    /\ obs.operands[2] = right
    /\ obs.operators[1] = operator

\* C12: on native integers an active site computes - for +, + for -, / for *
\* and * for /, an inactive site its own operator: 5 + 1 is 6 and 4,
\* 2 * 3 is 6 and 0, 4 / 4 is 1 and 16, 1 - 2 is -1 and 3.
C12_SwapTable ==
    /\ (obs.op = "binop" /\ obs.ty = "i32" /\ obs.next = 2)
       => LET a == obs.operands[1]
              b == obs.operands[2]
              operator == obs.operators[1]
              exact == IF RUNTIME_CONFIG = Some(1)
                       THEN CASE operator = "+" -> a - b
                              [] operator = "-" -> a + b
                              [] operator = "*" -> TruncDiv(a, b)
                              [] operator = "/" -> a * b
                       ELSE CASE operator = "+" -> a + b
                              [] operator = "-" -> a - b
                              [] operator = "*" -> a * b
                              [] operator = "/" -> TruncDiv(a, b)
          IN  (I32Min <= exact /\ exact <= I32Max) => Returns(obs.acc, exact)
    /\ FirstSite(5, "+", 1)
       => Returns(obs.acc, IF RUNTIME_CONFIG = Some(1) THEN 4 ELSE 6)
    /\ FirstSite(2, "*", 3)
       => Returns(obs.acc, IF RUNTIME_CONFIG = Some(1) THEN 0 ELSE 6)
    /\ FirstSite(4, "/", 4)
       => Returns(obs.acc, IF RUNTIME_CONFIG = Some(1) THEN 16 ELSE 1)
    /\ FirstSite(1, "-", 2)
       => Returns(obs.acc, IF RUNTIME_CONFIG = Some(1) THEN 3 ELSE 0 - 1)

\* 4 / 4 has been evaluated as 4 * 4
C12_Witness ==
    /\ FirstSite(4, "/", 4)
    /\ RUNTIME_CONFIG = Some(1)
    /\ Returns(obs.acc, 16)

\* the strings of a sequence, joined
RECURSIVE Concat(_)
Concat(strings) ==
    IF Len(strings) = 0 THEN << >>
    ELSE Head(strings) \o Concat(Tail(strings))

\* C13: a + site on strings panics when its mutation is active and returns
\* the concatenation of its operands when it is not.
C13_StringAdd ==
    (obs.op = "binop" /\ obs.ty = "String")
    => LET i == obs.next - 1
           active == Unwrap(RUNTIME_CONFIG)
       IN  IF i = active
           THEN obs.acc.kind = "panic"
           ELSE Returns(obs.acc, Concat(SubSeq(obs.operands, 1, i + 1)))

\* "a" + "b" has panicked with the mutation of its site active
C13_Witness ==
    /\ obs.op = "binop"
    /\ obs.ty = "String"
    /\ obs.operands = << << "a" >>, << "b" >> >>
    /\ RUNTIME_CONFIG = Some(1)
    /\ obs.acc.kind = "panic"

====
